---- MODULE Spec2Model ----
(***************************************************************************)
(* contest-lens: the rating-banded technique-frequency analysis of         *)
(* analyze.py: main from the database read (load_problems) through         *)
(* analyze_band, display_band, display_progression and                     *)
(* display_roadmap_from_data to the file written by export_real_data, and  *)
(* the /api/analysis handler of server.py that reads that file.            *)
(* The database is filled by init_db and store_problems of                 *)
(* fetch_codeforces.py, whose main is modelled as well.                    *)
(*                                                                         *)
(* Representation.                                                         *)
(*  - A Python dict is a sequence of [key, val] entries in insertion       *)
(*    order (dicts iterate in insertion order).                            *)
(*  - A frequency is the double that round(count / total, 4) returns: the  *)
(*    double nearest to a / 10000 for an integer a.  It is held as a.      *)
(*    Comparing two such doubles, or one with a literal of at most four    *)
(*    decimals (0.05, 0.10, 0.20 ...), is comparing the integers, because  *)
(*    decimal -> double conversion is monotone.                            *)
(*  - The result of a float subtraction is not such a double: it is held   *)
(*    exactly as a pair <<g, e>> standing for the real number              *)
(*    g / 10000 + e * 2^-66 / 10000 (see FloatSub).                        *)
(*  - TAG_TO_CATEGORY.get(tag, tag) yields a string or None: a lookup      *)
(*    result is [none |-> BOOLEAN, val |-> STRING].                        *)
(***************************************************************************)
EXTENDS Integers, Sequences, FiniteSets, TLC

VARIABLES
    database,      \* data/codeforces.db
    problems,      \* main's problems
    all_analyses,  \* main's all_analyses
    displayed,     \* the rows display_band printed, band by band
    progression,   \* the table display_progression printed
    roadmap,       \* what display_roadmap_from_data printed, band by band
    file,          \* data/real_analysis.json
    raised,        \* the exception that ended main, "" for none
    response,      \* the last response of /api/analysis
    fetched,       \* what fetch_problems returned to the fetcher's main
    pc             \* where main stands

vars == <<database, problems, all_analyses, displayed, progression, roadmap,
          file, raised, response, fetched, pc>>

(***************************************************************************)
(* Configuration data of analyze.py                                        *)
(***************************************************************************)
RATING_BANDS ==
    << [lo |-> 800,  hi |-> 1000, label |-> "Newbie -> Pupil"],
       [lo |-> 1000, hi |-> 1200, label |-> "Pupil"],
       [lo |-> 1200, hi |-> 1400, label |-> "Pupil -> Specialist"],
       [lo |-> 1400, hi |-> 1600, label |-> "Specialist -> Expert"],
       [lo |-> 1600, hi |-> 1900, label |-> "Expert"] >>

\* The entries of TAG_TO_CATEGORY whose value is a string.
TAG_TO_CATEGORY ==
    { <<"implementation", "Implementation">>,
      <<"brute force", "Brute Force">>,
      <<"greedy", "Greedy">>,
      <<"sortings", "Sorting">>,
      <<"math", "Math">>,
      <<"number theory", "Number Theory">>,
      <<"combinatorics", "Combinatorics">>,
      <<"geometry", "Geometry">>,
      <<"dp", "Dynamic Programming">>,
      <<"binary search", "Binary Search">>,
      <<"two pointers", "Two Pointers">>,
      <<"data structures", "Data Structures">>,
      <<"strings", "Strings">>,
      <<"string suffix structures", "Strings (Advanced)">>,
      <<"hashing", "Hashing">>,
      <<"graphs", "Graphs">>,
      <<"dfs and similar", "DFS / BFS">>,
      <<"shortest paths", "Shortest Paths">>,
      <<"trees", "Trees">>,
      <<"constructive algorithms", "Constructive Algorithms">>,
      <<"bitmasks", "Bit Manipulation">>,
      <<"divide and conquer", "Divide & Conquer">>,
      <<"games", "Game Theory">>,
      <<"flows", "Flows & Matching">>,
      <<"graph matchings", "Flows & Matching">>,
      <<"interactive", "Interactive">>,
      <<"probabilities", "Probability">>,
      <<"matrices", "Matrices">>,
      <<"fft", "FFT">>,
      <<"ternary search", "Ternary Search">>,
      <<"expression parsing", "Expression Parsing">>,
      <<"meet-in-the-middle", "Meet in the Middle">>,
      <<"2-sat", "2-SAT">>,
      <<"chinese remainder theorem", "Chinese Remainder Theorem">>,
      <<"schedules", "Scheduling">> }

\* The entries of TAG_TO_CATEGORY whose value is None ("*special": None).
NONE_TAGS == { "*special" }

\* MIN_FREQUENCY = 0.05, in ten-thousandths.
MIN_FREQUENCY == 500

(***************************************************************************)
(* Dicts in insertion order                                                *)
(***************************************************************************)
\* The keys of a dict, in insertion order.
Keys(d) == [k \in 1..Len(d) |-> d[k].key]

KeySet(d) == { d[k].key : k \in 1..Len(d) }

\* d.get(key, default) where the values of d are integers.
GetOr(d, key, default) ==
    IF key \in KeySet(d)
    THEN LET k == CHOOSE k \in 1..Len(d) : d[k].key = key IN d[k].val
    ELSE default

\* defaultdict(int): d[key] += 1.  A new key is inserted at the end.
Increment(d, key) ==
    IF key \in KeySet(d)
    THEN [k \in 1..Len(d) |->
             IF d[k].key = key THEN [key |-> key, val |-> d[k].val + 1] ELSE d[k]]
    ELSE Append(d, [key |-> key, val |-> 1])

\* Insertion before the entries of equal value: the order of a sort that is
\* not stable.
InsertByValDescUnstable(s, x) ==
    LET n == Cardinality({ k \in 1..Len(s) : s[k].val > x.val })
    IN  SubSeq(s, 1, n) \o <<x>> \o SubSeq(s, n + 1, Len(s))

\* sorted(d.items(), key=lambda x: x[1], reverse=True): a stable sort, so the
\* entries of equal value keep their order (reverse=True keeps it too).
\* Insertion into a sequence already in non-increasing order of val.
InsertByValDesc(s, x) ==
    LET n == Cardinality({ k \in 1..Len(s) : s[k].val >= x.val })
    IN  SubSeq(s, 1, n) \o <<x>> \o SubSeq(s, n + 1, Len(s))

RECURSIVE SortPrefixByValDesc(_, _)
SortPrefixByValDesc(d, n) ==
    IF n = 0 THEN <<>>
    ELSE InsertByValDesc(SortPrefixByValDesc(d, n - 1), d[n])

\* The items in insertion order, not sorted.
InsertionOrder(d) == d

SortedByValDesc(d) == SortPrefixByValDesc(d, Len(d))

(***************************************************************************)
(* Floating point                                                          *)
(***************************************************************************)
\* 2^n
RECURSIVE Pow2(_)
Pow2(n) == IF n = 0 THEN 1 ELSE 2 * Pow2(n - 1)

\* (x * 2^n) % m for 0 < m < 2^15, sixteen bits at a time: no intermediate
\* value reaches 2^31.
RECURSIVE ShiftMod(_, _, _)
ShiftMod(x, n, m) ==
    IF n = 0 THEN x % m
    ELSE IF n >= 16 THEN ShiftMod((65536 * (x % m)) % m, n - 16, m)
    ELSE ShiftMod((2 * (x % m)) % m, n - 1, m)

\* The binade of num / den for 0 < num <= den: the least k >= 0 with
\* num * 2^k >= den, i.e. num / den lies in [2^-k, 2^(1-k)).
RECURSIVE Binade(_, _, _)
Binade(num, den, k) == IF num * Pow2(k) >= den THEN k ELSE Binade(num, den, k + 1)

\* The sign of fl(num / den) - num / den, where fl(x) is the double nearest
\* to x and 0 < num <= den: the 53-bit significand is num * 2^s / den rounded
\* to an integer, s = 52 + Binade, and r is what the division leaves.
DivisionErrorSign(num, den) ==
    LET s == 52 + Binade(num, den, 0)
        r == ShiftMod(num, s, den)
    IN  IF r = 0 THEN 0 ELSE IF 2 * r > den THEN 1 ELSE -1

\* The frequency as a percentage.
Round4Percent(count, total) == 100 * ((10000 * count) \div total)

\* The frequency cut, not rounded, to 4 decimals.
Round4Truncated(count, total) == (10000 * count) \div total

\* round(count / total, 4), in ten-thousandths, for 0 <= count <= total and
\* total > 0.  count / total is the double nearest to the quotient, and
\* round() rounds that double correctly to 4 decimals, ties to even.  The
\* double is within 2^-53 of the quotient, so it falls on the quotient's
\* side of a rounding boundary unless the quotient is on the boundary, where
\* the double's own error decides (and, when the double is exact, the tie
\* goes to the even digit).
Round4(count, total) ==
    LET q   == (10000 * count) \div total
        rem == (10000 * count) % total
    IN  IF 2 * rem < total THEN q
        ELSE IF 2 * rem > total THEN q + 1
        ELSE LET sgn == DivisionErrorSign(count, total)
             IN  IF sgn > 0 THEN q + 1
                 ELSE IF sgn < 0 THEN q
                 ELSE IF q % 2 = 0 THEN q ELSE q + 1

(***************************************************************************)
(* analyze_band                                                            *)
(***************************************************************************)
\* The band closed at hi.
InBandClosed(p, lo, hi) == lo <= p.rating /\ p.rating <= hi

\* lo <= p["rating"] < hi
InBand(p, lo, hi) == lo <= p.rating /\ p.rating < hi

\* The keys of TAG_TO_CATEGORY.
TableKeys == { e[1] : e \in TAG_TO_CATEGORY } \cup NONE_TAGS

\* TAG_TO_CATEGORY[tag] for a key of the table: a string or None.
TableValue ==
    [ tag \in TableKeys |->
        IF tag \in NONE_TAGS THEN [none |-> TRUE, val |-> ""]
        ELSE [none |-> FALSE,
              val |-> (CHOOSE e \in TAG_TO_CATEGORY : e[1] = tag)[2]] ]

\* The lookup with the tags mapped to None treated as unmapped.
CategoryOfUnmappedNone(tag) ==
    IF tag \in TableKeys \ NONE_TAGS THEN TableValue[tag] ELSE [none |-> FALSE, val |-> tag]

\* TAG_TO_CATEGORY.get(tag, tag): the mapped value (a string or None), or
\* the raw tag when the table has no such key.
CategoryOf(tag) ==
    IF tag \in TableKeys THEN TableValue[tag] ELSE [none |-> FALSE, val |-> tag]

\* Python truth of a lookup result: None and the empty string are false.
Truthy(category) == ~category.none /\ category.val # ""

\* The test without the per-item set.
CountsEveryTag(category, seen_categories) == ~category.none /\ category.val # ""

\* if category and category not in seen_categories
CountsForItem(category, seen_categories) ==
    Truthy(category) /\ category.val \notin seen_categories

\* A raw tag counted once however often it occurs.
CountRawTagOnce(raw_tag_counts, tag) ==
    IF \E k \in 1..Len(raw_tag_counts) : raw_tag_counts[k].key = tag
    THEN raw_tag_counts
    ELSE Append(raw_tag_counts, [key |-> tag, val |-> 1])

\* raw_tag_counts[tag] += 1
CountRawTag(raw_tag_counts, tag) == Increment(raw_tag_counts, tag)

\* The loop over p["tags"] from position j on.  st holds category_counts,
\* raw_tag_counts and the item's seen_categories.
RECURSIVE ScanTags(_, _, _)
ScanTags(tags, j, st) ==
    IF j > Len(tags) THEN st
    ELSE LET tag      == tags[j]
             category == CategoryOf(tag)
             counts   == CountsForItem(category, st.seen_categories)
         IN  ScanTags(tags, j + 1,
                 [ raw_tag_counts  |-> CountRawTag(st.raw_tag_counts, tag),
                   category_counts |-> IF counts
                                       THEN Increment(st.category_counts, category.val)
                                       ELSE st.category_counts,
                   seen_categories |-> IF counts
                                       THEN st.seen_categories \cup {category.val}
                                       ELSE st.seen_categories ])

\* The loop over band_problems[first..last], in order; seen_categories
\* starts empty for every item.  The range is walked as its first half, then
\* its second half, which visits the items in the order of the loop.  TLC
\* computes an operator's argument where it is first used: the test on
\* st_mid, true of every value, has the state after the first half computed
\* before the second half is entered, which keeps the evaluation shallow.
RECURSIVE ScanProblems(_, _, _, _)
ScanProblems(band_problems, first, last, st) ==
    IF first > last THEN st
    ELSE IF first = last
    THEN ScanTags(band_problems[first].tags, 1, [st EXCEPT !.seen_categories = {}])
    ELSE LET mid    == (first + last) \div 2
             st_mid == ScanProblems(band_problems, first, mid, st)
         IN  IF st_mid = st_mid
             THEN ScanProblems(band_problems, mid + 1, last, st_mid)
             ELSE st_mid

\* The categories dict: {"count": count, "frequency": round(count / total, 4)}
\* per category, in the order of the sort.
CategoryTable(category_counts, total) ==
    LET s == SortedByValDesc(category_counts)
    IN  [k \in 1..Len(s) |->
            [key |-> s[k].key, count |-> s[k].val,
             frequency |-> Round4(s[k].val, total)]]

\* The empty result with an empty raw-tag table.
EmptyAnalysisWithRawTags == [total |-> 0, categories |-> <<>>, raw_tags |-> <<>>]

\* return {"total": 0, "categories": {}}: the result for an empty band has
\* no "raw_tags" key.
EmptyAnalysis == [total |-> 0, categories |-> <<>>]

\* analyze_band(problems, lo, hi).
analyze_band(items, lo, hi) ==
    LET band_problems == SelectSeq(items, LAMBDA p : InBand(p, lo, hi))
        total         == Len(band_problems)
        st            == ScanProblems(band_problems, 1, total,
                             [ raw_tag_counts |-> <<>>, category_counts |-> <<>>,
                               seen_categories |-> {} ])
    IN  IF total = 0
        THEN EmptyAnalysis
        ELSE [total |-> total,
              categories |-> CategoryTable(st.category_counts, total),
              raw_tags |-> SortedByValDesc(st.raw_tag_counts)]

(***************************************************************************)
(* display_band                                                            *)
(***************************************************************************)
\* The rows display_band prints: the categories in table order up to, not
\* including, the first one whose frequency is below MIN_FREQUENCY (break).
RECURSIVE RowsFrom(_, _)
RowsFrom(categories, k) ==
    IF k > Len(categories) THEN <<>>
    ELSE IF categories[k].frequency < MIN_FREQUENCY THEN <<>>
    ELSE <<categories[k]>> \o RowsFrom(categories, k + 1)

display_band(analysis) == RowsFrom(analysis.categories, 1)

(***************************************************************************)
(* Float subtraction (growth = info["frequency"] - prev_freq)              *)
(***************************************************************************)
\* The error of a frequency: fl(a / 10000) - a / 10000 in units of
\* 2^-66 / 10000, for 0 <= a <= 10000.  With s = 52 + Binade the significand
\* is a * 2^s / 10000 rounded to an integer; r is what the division leaves
\* (never exactly half), and one unit in the last place is 2^(66 - s) units.
FloatErr(a) ==
    IF a = 0 THEN 0
    ELSE LET k == Binade(a, 10000, 0)
             r == ShiftMod(a, 52 + k, 10000)
         IN  (IF 2 * r < 10000 THEN 0 - r ELSE 10000 - r) * Pow2(14 - k)

\* The binade of the exact difference g / 10000 + e0 units, g > 0.
RECURSIVE DiffBinade(_, _, _)
DiffBinade(g, e0, k) ==
    IF g * Pow2(k) > 10000 \/ (g * Pow2(k) = 10000 /\ e0 >= 0) THEN k
    ELSE DiffBinade(g, e0, k + 1)

\* fl(a / 10000) - fl(b / 10000) for a > b >= 0, as the float subtraction
\* returns it: the exact difference D of the two doubles, rounded to 53 bits
\* (nearest, ties to even).  D is a multiple of 2^-66; in the binade k of D
\* one unit in the last place is 2^(14 - k) of them, so the low j = 14 - k
\* bits of D * 2^66 = (g * 2^66 + e0) / 10000 are rounded away.  lowx is
\* D * 2^66 modulo 2^(j+1); as 10000 * 2^(j+1) = 625 * 2^(j+5), g * 2^66
\* modulo that is 2^(j+5) * ((g * 2^(61-j)) % 625).
FloatSubPos(a, b) ==
    LET g  == a - b
        e0 == FloatErr(a) - FloatErr(b)
        j  == 14 - DiffBinade(g, e0, 0)
    IN  IF j <= 0 THEN <<g, e0>>
        ELSE LET m    == 10000 * Pow2(j + 1)
                 hi66 == Pow2(j + 5) * ShiftMod(g, 61 - j, 625)
                 lowx == ((hi66 + e0) % m) \div 10000
                 low  == lowx % Pow2(j)
                 half == Pow2(j - 1)
                 adj  == IF low < half THEN 0 - low
                         ELSE IF low > half THEN Pow2(j) - low
                         ELSE IF lowx < Pow2(j) THEN 0 - low
                         ELSE Pow2(j) - low
             IN  <<g, e0 + 10000 * adj>>

\* x - y for two frequencies (y may be the integer 0 of .get("frequency", 0)).
FloatSub(a, b) ==
    IF a = b THEN <<0, 0>>
    ELSE IF a > b THEN FloatSubPos(a, b)
    ELSE LET d == FloatSubPos(b, a) IN <<0 - d[1], 0 - d[2]>>

\* The double of a literal of at most four decimals, c ten-thousandths.
FloatLit(c) == <<c, FloatErr(c)>>

\* x >= y for two doubles held as pairs: the errors are far below one
\* ten-thousandth, so the order is lexicographic.
FloatGE(x, y) == x[1] > y[1] \/ (x[1] = y[1] /\ x[2] >= y[2])

(***************************************************************************)
(* display_progression                                                     *)
(***************************************************************************)
\* key_categories of display_progression.
key_categories ==
    << "Implementation", "Greedy", "Math", "Binary Search",
       "Dynamic Programming", "Graphs", "DFS / BFS", "Trees",
       "Data Structures", "Constructive Algorithms", "Sorting",
       "Two Pointers", "Number Theory", "Combinatorics",
       "Strings", "Brute Force", "Bit Manipulation" >>

\* 0.01, in ten-thousandths: below it a cell of the progression table is a dash.
PROGRESSION_MIN == 100

\* analysis["categories"].get(cat): the index of cat in the table, 0 for None.
CategoryIndex(categories, cat) ==
    IF \E k \in 1..Len(categories) : categories[k].key = cat
    THEN CHOOSE k \in 1..Len(categories) : categories[k].key = cat
    ELSE 0

\* One cell of the progression table: a dash (-1) or the frequency printed.
ProgressionCell(analysis, cat) ==
    LET k == CategoryIndex(analysis.categories, cat)
    IN  IF k = 0 THEN -1
        ELSE IF analysis.categories[k].frequency < PROGRESSION_MIN THEN -1
        ELSE analysis.categories[k].frequency

\* The table display_progression prints: a row per key category, a cell
\* per band.
display_progression(analyses) ==
    [c \in 1..Len(key_categories) |->
        [i \in 1..Len(RATING_BANDS) |-> ProgressionCell(analyses[i], key_categories[c])]]

(***************************************************************************)
(* display_roadmap_from_data                                               *)
(***************************************************************************)
\* info["frequency"] >= 0.10
TOP_FREQUENCY == 1000
\* growth >= 0.03
GROWTH_MIN == 300
\* prev_freq < 0.05
PREV_MAX == 500
\* info["frequency"] >= 0.08
NEW_MIN == 800
\* i["frequency"] >= 0.20
DOMINANT_MIN == 2000
\* top_techs[:6] and new_or_growing[:6]
TOP_SHOWN == 6
\* dominant[:5]
DOMINANT_SHOWN == 5

\* The whole list, whatever n.
TakeAll(s, n) == s

\* The first TOP_SHOWN entries, whatever n.
TakeTopShown(s, n) == SubSeq(s, 1, IF Len(s) < TOP_SHOWN THEN Len(s) ELSE TOP_SHOWN)

\* s[:n]
Take(s, n) == SubSeq(s, 1, IF Len(s) < n THEN Len(s) ELSE n)

\* The categories of the band with frequency >= 0.08.
top_techs_from_new_min(analysis) ==
    SelectSeq(analysis.categories, LAMBDA info : info.frequency >= NEW_MIN)

\* top_techs: the categories of the band with frequency >= 0.10, in table
\* order.
top_techs(analysis) ==
    SelectSeq(analysis.categories, LAMBDA info : info.frequency >= TOP_FREQUENCY)

\* prev["categories"].get(cat, {}).get("frequency", 0)
PrevFrequency(prev, cat) ==
    LET k == CategoryIndex(prev.categories, cat)
    IN  IF k = 0 THEN 0 ELSE prev.categories[k].frequency

\* growth >= 0.03 or (prev_freq < 0.05 and info["frequency"] >= 0.08)
IsNewOrGrowing(frequency, prev_freq, growth) ==
    \/ FloatGE(growth, FloatLit(GROWTH_MIN))
    \/ (prev_freq < PREV_MAX /\ frequency >= NEW_MIN)

\* The loop that fills new_or_growing, from position k of top_techs on.
RECURSIVE CollectGrowing(_, _, _)
CollectGrowing(top, prev, k) ==
    IF k > Len(top) THEN <<>>
    ELSE LET info      == top[k]
             prev_freq == PrevFrequency(prev, info.key)
             growth    == FloatSub(info.frequency, prev_freq)
             rest      == CollectGrowing(top, prev, k + 1)
         IN  IF IsNewOrGrowing(info.frequency, prev_freq, growth)
             THEN <<[key |-> info.key, frequency |-> info.frequency,
                     growth |-> growth]>> \o rest
             ELSE rest

\* new_or_growing.sort(key=lambda x: x[2], reverse=True): stable.
InsertByGrowthDesc(s, x) ==
    LET n == Cardinality({ k \in 1..Len(s) : FloatGE(s[k].growth, x.growth) })
    IN  SubSeq(s, 1, n) \o <<x>> \o SubSeq(s, n + 1, Len(s))

RECURSIVE SortPrefixByGrowthDesc(_, _)
SortPrefixByGrowthDesc(s, n) ==
    IF n = 0 THEN <<>>
    ELSE InsertByGrowthDesc(SortPrefixByGrowthDesc(s, n - 1), s[n])

SortedByGrowthDesc(s) == SortPrefixByGrowthDesc(s, Len(s))

\* One iteration of the loop of display_roadmap_from_data, for band i
\* (1-based; the code's i is i - 1).  new_or_growing is the local list as the
\* iteration leaves it; first, growing and dominant are the lines printed.
RoadmapEntry(analyses, i) ==
    LET top == top_techs(analyses[i])
        new_or_growing == IF i > 1 THEN CollectGrowing(top, analyses[i - 1], 1)
                          ELSE <<>>
        sorted == SortedByGrowthDesc(new_or_growing)
        dominant == SelectSeq(top, LAMBDA info : info.frequency >= DOMINANT_MIN)
    IN  IF i = 1
        THEN [first |-> Take(top, TOP_SHOWN), new_or_growing |-> <<>>,
              growing |-> <<>>, dominant |-> <<>>]
        ELSE [first |-> <<>>, new_or_growing |-> sorted,
              growing |-> Take(sorted, TOP_SHOWN),
              dominant |-> Take(dominant, DOMINANT_SHOWN)]

display_roadmap_from_data(analyses) ==
    [i \in 1..Len(RATING_BANDS) |-> RoadmapEntry(analyses, i)]

(***************************************************************************)
(* json: texts and values                                                  *)
(*                                                                         *)
(* A JSON text is the sequence of its lexemes (white space and the escapes *)
(* inside string literals are not represented): a punctuation mark         *)
(* [p |-> c], a string literal [s |-> str], an integer [n |-> i], a number *)
(* with a fraction [whole |-> i, digits |-> <<d1, ...>>], or null.         *)
(* A Python value is a record with its type: "str", "int", "float" (f, in  *)
(* ten-thousandths, the double nearest to it), "NoneType", "list" (items)  *)
(* or "dict" (members, the <<key, value>> entries in insertion order).     *)
(***************************************************************************)
Punct(c) == [p |-> c]
NullLexeme == [lit |-> "null"]

IsPunct(text, pos, c) ==
    /\ pos <= Len(text)
    /\ "p" \in DOMAIN text[pos]
    /\ text[pos].p = c

PyStr(s) == [type |-> "str", s |-> s]
PyInt(n) == [type |-> "int", n |-> n]
PyFloat(f) == [type |-> "float", f |-> f]
PyNone == [type |-> "NoneType"]
PyList(items) == [type |-> "list", items |-> items]
PyDict(members) == [type |-> "dict", members |-> members]

\* d[key] = value on the members of a dict: a key it holds keeps its place.
DictSet(members, key, value) ==
    IF \E k \in 1..Len(members) : members[k].key = key
    THEN [k \in 1..Len(members) |->
             IF members[k].key = key THEN [key |-> key, value |-> value]
             ELSE members[k]]
    ELSE Append(members, [key |-> key, value |-> value])

\* The fraction digits without the zeros at their end, one digit at least.
RECURSIVE StripZeros(_)
StripZeros(digits) ==
    IF Len(digits) > 1 /\ digits[Len(digits)] = 0
    THEN StripZeros(SubSeq(digits, 1, Len(digits) - 1))
    ELSE digits

\* The fraction printed with two digits only.
FloatReprTwoDigits(f) ==
    [whole |-> f \div 10000,
     digits |-> StripZeros(<< (f % 10000) \div 1000, ((f % 10000) \div 100) % 10 >>)]

\* float.__repr__, which json.dump writes: the shortest decimal that reads
\* back as the same double.  For the double nearest to f / 10000 that is
\* the decimal f / 10000 itself: "0.0063", "0.5", "1.0".
FloatRepr(f) ==
    [whole |-> f \div 10000,
     digits |-> StripZeros(<< (f % 10000) \div 1000, ((f % 10000) \div 100) % 10,
                              ((f % 10000) \div 10) % 10, f % 10 >>)]

\* The double a number lexeme with at most 4 fraction digits reads as, in
\* ten-thousandths.
RECURSIVE DigitsValue(_, _)
DigitsValue(digits, k) ==
    IF k > Len(digits) \/ k > 4 THEN 0
    ELSE digits[k] * (CASE k = 1 -> 1000 [] k = 2 -> 100 [] k = 3 -> 10 [] k = 4 -> 1)
         + DigitsValue(digits, k + 1)

ParseFloat(lexeme) == lexeme.whole * 10000 + DigitsValue(lexeme.digits, 1)

\* json.dumps / json.dump: the text of a value.
RECURSIVE JsonDumps(_)
RECURSIVE DumpItems(_, _)
RECURSIVE DumpMembers(_, _)
JsonDumps(value) ==
    CASE value.type = "str"      -> << [s |-> value.s] >>
      [] value.type = "int"      -> << [n |-> value.n] >>
      [] value.type = "float"    -> << FloatRepr(value.f) >>
      [] value.type = "NoneType" -> << NullLexeme >>
      [] value.type = "list"     ->
            << Punct("[") >> \o DumpItems(value.items, 1) \o << Punct("]") >>
      [] value.type = "dict"     ->
            << Punct("{") >> \o DumpMembers(value.members, 1) \o << Punct("}") >>

DumpItems(items, k) ==
    IF k > Len(items) THEN <<>>
    ELSE (IF k > 1 THEN << Punct(",") >> ELSE <<>>)
         \o JsonDumps(items[k]) \o DumpItems(items, k + 1)

DumpMembers(members, k) ==
    IF k > Len(members) THEN <<>>
    ELSE (IF k > 1 THEN << Punct(",") >> ELSE <<>>)
         \o << [s |-> members[k].key], Punct(":") >>
         \o JsonDumps(members[k].value) \o DumpMembers(members, k + 1)

\* The outcome of reading a value that starts at pos: the value and the
\* position after it, or a failure.
Parsed(value, next) == [ok |-> TRUE, value |-> value, next |-> next]
NotParsed == [ok |-> FALSE, value |-> PyNone, next |-> 0]

RECURSIVE ParseValue(_, _)
RECURSIVE ParseItems(_, _, _)
RECURSIVE ParseMembers(_, _, _)
ParseValue(text, pos) ==
    IF pos > Len(text) THEN NotParsed
    ELSE LET lexeme == text[pos]
         IN  IF "s" \in DOMAIN lexeme THEN Parsed(PyStr(lexeme.s), pos + 1)
             ELSE IF "n" \in DOMAIN lexeme THEN Parsed(PyInt(lexeme.n), pos + 1)
             ELSE IF "whole" \in DOMAIN lexeme
             THEN Parsed(PyFloat(ParseFloat(lexeme)), pos + 1)
             ELSE IF "lit" \in DOMAIN lexeme THEN Parsed(PyNone, pos + 1)
             ELSE IF IsPunct(text, pos, "[")
             THEN IF IsPunct(text, pos + 1, "]")
                  THEN Parsed(PyList(<<>>), pos + 2)
                  ELSE ParseItems(text, pos + 1, <<>>)
             ELSE IF IsPunct(text, pos, "{")
             THEN IF IsPunct(text, pos + 1, "}")
                  THEN Parsed(PyDict(<<>>), pos + 2)
                  ELSE ParseMembers(text, pos + 1, <<>>)
             ELSE NotParsed

\* The items of a list from pos on, after the items already read.
ParseItems(text, pos, items) ==
    LET item == ParseValue(text, pos)
    IN  IF ~item.ok THEN NotParsed
        ELSE IF IsPunct(text, item.next, ",")
        THEN ParseItems(text, item.next + 1, Append(items, item.value))
        ELSE IF IsPunct(text, item.next, "]")
        THEN Parsed(PyList(Append(items, item.value)), item.next + 1)
        ELSE NotParsed

\* The members of an object from pos on; a key read again replaces the
\* value read before.
ParseMembers(text, pos, members) ==
    IF ~(pos <= Len(text) /\ "s" \in DOMAIN text[pos] /\ IsPunct(text, pos + 1, ":"))
    THEN NotParsed
    ELSE LET member == ParseValue(text, pos + 2)
             read   == DictSet(members, text[pos].s, member.value)
         IN  IF ~member.ok THEN NotParsed
             ELSE IF IsPunct(text, member.next, ",")
             THEN ParseMembers(text, member.next + 1, read)
             ELSE IF IsPunct(text, member.next, "}")
             THEN Parsed(PyDict(read), member.next + 1)
             ELSE NotParsed

\* json.loads / json.load: the value of a text that holds one value and
\* nothing after it; ok is FALSE where json raises JSONDecodeError.
JsonLoads(text) ==
    LET r == ParseValue(text, 1)
    IN  IF r.ok /\ r.next = Len(text) + 1
        THEN [ok |-> TRUE, value |-> r.value]
        ELSE [ok |-> FALSE, value |-> PyNone]

(***************************************************************************)
(* Inputs                                                                  *)
(***************************************************************************)
\* The ratings of the items: the lower end of the first band, and its upper
\* end, which is the lower end of the second.
Ratings == { 800, 1000 }

\* The raw tags of the items: two that map to one category, one the table
\* does not hold, the tag mapped to None, and the empty string.
Tags == { "flows", "graph matchings", "xyz", "*special", "" }

\* An item of load_problems, with the two fields analyze_band reads, when
\* its "tags" is a list of strings; tags_type is the type of p["tags"].
Item(rating, tags) == [rating |-> rating, tags |-> tags, tags_type |-> "list"]

\* The size of a collection is its number of items plus its number of tag
\* occurrences; the collections of Init have size at most MaxSize.
MaxSize == 5

\* The tag lists of length exactly n.
RECURSIVE TagLists(_)
TagLists(n) ==
    IF n = 0 THEN { <<>> }
    ELSE { <<t>> \o l : t \in Tags, l \in TagLists(n - 1) }

\* The items of size exactly v: one item and v - 1 tags.
Items(v) == { Item(r, l) : r \in Ratings, l \in TagLists(v - 1) }

\* <<C(0), ..., C(w)>> where C(n) is the set of the collections of size at
\* most n: the empty one, and an item of size v before a collection of
\* C(n - v).
RECURSIVE CollectionsUpTo(_)
CollectionsUpTo(w) ==
    IF w = 0 THEN << { <<>> } >>
    ELSE LET below == CollectionsUpTo(w - 1)
         IN  Append(below,
                    { <<>> } \cup
                    UNION { { <<x>> \o c : x \in Items(v), c \in below[w - v + 1] } :
                            v \in 1..w })

Collections(w) == CollectionsUpTo(w)[w + 1]

(***************************************************************************)
(* The database and load_problems                                          *)
(*                                                                         *)
(* A column value is <<>> for NULL and <<v>> for the value v; a row has    *)
(* the columns rating and tags, the latter a JSON text.                    *)
(***************************************************************************)
Row(rating, tags) == [rating |-> rating, tags |-> tags]

\* No file at DB_PATH, and no directory to hold one.
NoDirectory == [dir |-> FALSE, exists |-> FALSE, has_table |-> FALSE, rows |-> <<>>]

\* No file at DB_PATH, in a directory that exists.
NoDatabase == [dir |-> TRUE, exists |-> FALSE, has_table |-> FALSE, rows |-> <<>>]

\* The file sqlite3.connect creates when there is none: a database without
\* tables.
CreatedDatabase == [dir |-> TRUE, exists |-> TRUE, has_table |-> FALSE, rows |-> <<>>]

\* The row store_problems writes for a fetched problem: the rating, and
\* json.dumps of the list of tags.
StoredRow(p) ==
    Row(<<p.rating>>,
        <<JsonDumps(PyList([k \in 1..Len(p.tags) |-> PyStr(p.tags[k])]))>>)

StoredDatabase(items) ==
    [dir |-> TRUE, exists |-> TRUE, has_table |-> TRUE,
     rows |-> [k \in 1..Len(items) |-> StoredRow(items[k])]]

\* The characters of a string, for the strings the stored texts hold.
Characters(s) ==
    CASE s = "dp" -> <<"d", "p">>
      [] s = ""   -> <<>>
      [] OTHER    -> <<s>>

\* What "for tag in value" goes through: the elements of a list (of
\* strings), the characters of a string, the keys of a dict; a value of
\* another type cannot be iterated.
Iterable(type) == type \in { "list", "str", "dict" }

Elements(value) ==
    CASE value.type = "list" -> [k \in 1..Len(value.items) |-> value.items[k].s]
      [] value.type = "str"  -> Characters(value.s)
      [] value.type = "dict" -> [k \in 1..Len(value.members) |-> value.members[k].key]
      [] OTHER               -> <<>>

\* The dict load_problems appends for a row: "tags" is whatever json.loads
\* returned.
LoadedItem(rating, value) ==
    [rating |-> rating, tags |-> Elements(value), tags_type |-> value.type]

\* load_problems(conn) on a database with the table: the rows with a
\* rating, in order, each with json.loads of its tags.  json.loads raises
\* TypeError for NULL and JSONDecodeError for a text that is not JSON; the
\* first row that raises ends the load.
load_problems(db) ==
    LET rows   == SelectSeq(db.rows, LAMBDA row : row.rating # <<>>)
        loaded == [k \in 1..Len(rows) |->
                     IF rows[k].tags = <<>> THEN [ok |-> FALSE, value |-> PyNone]
                     ELSE JsonLoads(rows[k].tags[1])]
        bad    == { k \in 1..Len(rows) : ~loaded[k].ok }
    IN  IF bad = {}
        THEN [raised |-> "",
              problems |-> [k \in 1..Len(rows) |->
                              LoadedItem(rows[k].rating[1], loaded[k].value)]]
        ELSE LET k == CHOOSE k \in bad : \A j \in bad : k <= j
             IN  [raised |-> IF rows[k].tags = <<>> THEN "TypeError"
                             ELSE "JSONDecodeError",
                  problems |-> <<>>]

\* The two messages of sqlite3.OperationalError that main can end with.
UnableToOpen == "OperationalError: unable to open database file"
NoSuchTable == "OperationalError: no such table: problems"

\* sqlite3.connect(str(DB_PATH)) and load_problems(conn) in main: connect
\* raises when the directory is missing and creates the file when only the
\* file is missing, and the SELECT raises on a database without the table.
ConnectAndLoad(db) ==
    IF ~db.dir
    THEN [database |-> db, raised |-> UnableToOpen, problems |-> <<>>]
    ELSE IF ~db.exists
    THEN [database |-> CreatedDatabase, raised |-> NoSuchTable, problems |-> <<>>]
    ELSE IF ~db.has_table
    THEN [database |-> db, raised |-> NoSuchTable, problems |-> <<>>]
    ELSE [database |-> db, raised |-> load_problems(db).raised,
          problems |-> load_problems(db).problems]

\* analyze_band raises TypeError when an item of the band has "tags" that
\* cannot be iterated (None, a number).
AnalyzeRaises(items, lo, hi) ==
    \E k \in 1..Len(items) : InBand(items[k], lo, hi) /\ ~Iterable(items[k].tags_type)

(***************************************************************************)
(* export_real_data and the file it writes                                 *)
(***************************************************************************)
\* f"{lo}-{hi}"
BandKey(band) == ToString(band.lo) \o "-" \o ToString(band.hi)

\* The techniques with the two fields of the first category only.
ExportFirstTechnique(analysis) ==
    PyDict([k \in 1..(IF Len(analysis.categories) > 0 THEN 1 ELSE 0) |->
              [key |-> analysis.categories[k].key,
               value |-> PyDict(<< [key |-> "frequency",
                                    value |-> PyFloat(analysis.categories[k].frequency)],
                                   [key |-> "problem_count",
                                    value |-> PyInt(analysis.categories[k].count)] >>)]])

\* "techniques": cat -> {"frequency", "problem_count"} for the categories
\* of the analysis, in table order.
ExportTechniques(analysis) ==
    PyDict([k \in 1..Len(analysis.categories) |->
              [key |-> analysis.categories[k].key,
               value |-> PyDict(<< [key |-> "frequency",
                                    value |-> PyFloat(analysis.categories[k].frequency)],
                                   [key |-> "problem_count",
                                    value |-> PyInt(analysis.categories[k].count)] >>)]])

\* output[key] for one band.
ExportBand(band, analysis) ==
    PyDict(<< [key |-> "label", value |-> PyStr(band.label)],
              [key |-> "total_problems", value |-> PyInt(analysis.total)],
              [key |-> "techniques", value |-> ExportTechniques(analysis)] >>)

\* output after the first n bands of the loop.
RECURSIVE ExportOutput(_, _)
ExportOutput(analyses, n) ==
    IF n = 0 THEN <<>>
    ELSE DictSet(ExportOutput(analyses, n - 1), BandKey(RATING_BANDS[n]),
                 ExportBand(RATING_BANDS[n], analyses[n]))

\* The dict export_real_data builds and hands to json.dump.
export_real_data(analyses) == PyDict(ExportOutput(analyses, Len(RATING_BANDS)))

\* No file at the path.
NoFile == [exists |-> FALSE, text |-> <<>>]

\* The file open(out_path, "w") leaves: it exists and is empty.
TruncatedFile == [exists |-> TRUE, text |-> <<>>]

\* The file with a complete text.
FileWith(text) == [exists |-> TRUE, text |-> text]

(***************************************************************************)
(* server.py: /api/analysis                                                *)
(***************************************************************************)
NoResponse == [status |-> 0, body |-> PyNone]

\* get_analysis(): 404 with an error body when the file does not exist;
\* otherwise json.load of the file and 200 with the data; an exception of
\* json.load is Flask's 500.
get_analysis(f) ==
    IF ~f.exists
    THEN [status |-> 404,
          body |-> PyDict(<< [key |-> "error",
                              value |-> PyStr("real_analysis.json not found. Run analyze.py first.")] >>)]
    ELSE IF JsonLoads(f.text).ok
    THEN [status |-> 200, body |-> JsonLoads(f.text).value]
    ELSE [status |-> 500, body |-> PyNone]

(***************************************************************************)
(* main: the analysis run                                                  *)
(***************************************************************************)
\* Nothing fetched: the fetcher is not running.
NoFetch == [problems |-> <<>>, stats |-> <<>>]

\* The state in which main starts on a database and an export file.
StartOn(db, f) ==
    /\ database = db
    /\ file = f
    /\ problems = <<>>
    /\ all_analyses = <<>>
    /\ displayed = <<>>
    /\ progression = <<>>
    /\ roadmap = <<>>
    /\ raised = ""
    /\ response = NoResponse
    /\ fetched = NoFetch
    /\ pc = "load"

\* main starts on the database in which store_problems stored the items,
\* with no export file yet.
Start(items) == StartOn(StoredDatabase(items), NoFile)

Init == \E items \in Collections(MaxSize) : Start(items)

\* conn = sqlite3.connect(str(DB_PATH)); problems = load_problems(conn).
\* An exception ends main.
LoadProblems ==
    /\ pc = "load"
    /\ LET r == ConnectAndLoad(database)
       IN  /\ database' = r.database
           /\ raised' = r.raised
           /\ problems' = r.problems
           /\ pc' = IF r.raised = "" THEN "analyze" ELSE "raised"
    /\ UNCHANGED <<fetched, all_analyses, displayed, progression, roadmap, file, response>>

\* One iteration of "for lo, hi, label in RATING_BANDS": analyze_band,
\* all_analyses.append, display_band.
AnalyzeBand ==
    /\ pc = "analyze"
    /\ LET band == RATING_BANDS[Len(all_analyses) + 1]
       IN  IF AnalyzeRaises(problems, band.lo, band.hi)
           THEN /\ raised' = "TypeError"
                /\ pc' = "raised"
                /\ UNCHANGED <<all_analyses, displayed>>
           ELSE LET analysis == analyze_band(problems, band.lo, band.hi)
                IN  /\ all_analyses' = Append(all_analyses, analysis)
                    /\ displayed' = Append(displayed, display_band(analysis))
                    /\ pc' = IF Len(all_analyses) + 1 = Len(RATING_BANDS)
                             THEN "progression" ELSE "analyze"
                    /\ UNCHANGED raised
    /\ UNCHANGED <<fetched, database, problems, progression, roadmap, file, response>>

DisplayProgression ==
    /\ pc = "progression"
    /\ progression' = display_progression(all_analyses)
    /\ pc' = "roadmap"
    /\ UNCHANGED <<fetched, database, problems, all_analyses, displayed, roadmap, file,
                   raised, response>>

DisplayRoadmap ==
    /\ pc = "roadmap"
    /\ roadmap' = display_roadmap_from_data(all_analyses)
    /\ pc' = "export"
    /\ UNCHANGED <<fetched, database, problems, all_analyses, displayed, progression,
                   file, raised, response>>

\* export_real_data up to open(out_path, "w"): output is built and the file
\* is created or emptied.
ExportOpen ==
    /\ pc = "export"
    /\ file' = TruncatedFile
    /\ pc' = "dump"
    /\ UNCHANGED <<fetched, database, problems, all_analyses, displayed, progression,
                   roadmap, raised, response>>

\* json.dump(output, f, indent=2) and the end of the with block: the text
\* is in the file when it is closed.
ExportClose ==
    /\ pc = "dump"
    /\ file' = FileWith(JsonDumps(export_real_data(all_analyses)))
    /\ pc' = "done"
    /\ UNCHANGED <<fetched, database, problems, all_analyses, displayed, progression,
                   roadmap, raised, response>>

\* A request to /api/analysis, at any time.
GetAnalysis ==
    /\ response' = get_analysis(file)
    /\ UNCHANGED <<fetched, database, problems, all_analyses, displayed, progression,
                   roadmap, file, raised, pc>>

Next ==
    \/ LoadProblems
    \/ AnalyzeBand
    \/ DisplayProgression
    \/ DisplayRoadmap
    \/ ExportOpen
    \/ ExportClose

Spec == Init /\ [][Next]_vars

(***************************************************************************)
(* Larger bands: a band of many items, described by how many of them carry *)
(* each tag                                                                *)
(***************************************************************************)
\* The band totals at which rounding is examined: small ones, and 32 and
\* 160, the least totals with a quotient exactly between two ten-thousandths
\* (at 32 the double is exact, at 160 it is not).
BlockTotals == (1..12) \cup { 32, 160 }

\* A tag is carried by at most MaxBlockCount items of the band, or by all
\* but at most MaxBlockCount.
MaxBlockCount == 3

BlockCounts(t) == { c \in 0..t : c <= MaxBlockCount \/ t - c <= MaxBlockCount }

\* t items of rating r: the first c1 carry "math", the first c2 "greedy".
BlockProblems(r, t, c1, c2) ==
    [ j \in 1..t |->
        Item(r, (IF j <= c1 THEN <<"math">> ELSE <<>>) \o
                (IF j <= c2 THEN <<"greedy">> ELSE <<>>)) ]

InitRounding ==
    \E r \in Ratings, t \in BlockTotals :
        \E c1, c2 \in BlockCounts(t) : Start(BlockProblems(r, t, c1, c2))

SpecRounding == InitRounding /\ [][Next]_vars

(***************************************************************************)
(* Five full bands: every band holds BandTotal items, and each category    *)
(* follows a trajectory, the number of items that carry it band by band    *)
(***************************************************************************)
BandTotal == 100

\* The tags of the categories, in the order in which an item lists them.
CategoryTags ==
    << "implementation", "greedy", "math", "dp", "graphs", "trees",
       "strings", "sortings", "bitmasks", "hashing" >>

\* Trajectories around the thresholds of the roadmap: 0.04 -> 0.09 -> 0.04
\* -> 0.10 -> 0.13; 0.40 -> 0.43 -> 0.46 -> 0.20 -> absent; absent -> 0.10
\* -> 0.04 -> 0.12 -> 0.16; 0.05 -> 0.10 -> 0.12 -> 0.15 -> 0.08; and
\* 0.30 -> 0.33 -> 0.36 -> 0.39 -> 0.19.
ThresholdTrajectories ==
    { <<4, 9, 4, 10, 13>>, <<40, 43, 46, 20, 0>>, <<0, 10, 4, 12, 16>>,
      <<5, 10, 12, 15, 8>>, <<30, 33, 36, 39, 19>> }

\* Trajectories of categories that are frequent in every band, whose order
\* by growth differs from their order by frequency, and none of which grows
\* from the fourth band to the last.
FrequentTrajectories ==
    << <<10, 20, 30, 60, 60>>, <<20, 24, 50, 55, 50>>,
       <<50, 80, 84, 100, 100>>, <<15, 35, 40, 75, 70>> >>

\* At most MaxThresholdCats categories follow threshold trajectories, or at
\* most MaxFrequentCats follow frequent ones.
MaxThresholdCats == 2
MaxFrequentCats == 7

\* n frequent categories: they take the frequent trajectories in turn,
\* starting from trajectory number start.
FrequentFrom(start, n) ==
    [ k \in 1..n |->
        FrequentTrajectories[((start + k - 2) % Len(FrequentTrajectories)) + 1] ]

\* The sequences over S of length exactly n.
RECURSIVE SeqsOfLen(_, _)
SeqsOfLen(S, n) ==
    IF n = 0 THEN { <<>> }
    ELSE { <<x>> \o s : x \in S, s \in SeqsOfLen(S, n - 1) }

SeqsUpTo(S, n) == UNION { SeqsOfLen(S, k) : k \in 0..n }

\* A count of a trajectory, for a band of BandTotal items.
Capped(c) == IF c > BandTotal THEN BandTotal ELSE c

\* The tags of item j of band i: the tag of category k when j is among the
\* first trajs[k][i] items of the band.
TrajectoryTags(trajs, i, j) ==
    LET ks == SelectSeq([k \in 1..Len(trajs) |-> k],
                        LAMBDA k : j <= Capped(trajs[k][i]))
    IN  [n \in 1..Len(ks) |-> CategoryTags[ks[n]]]

TrajectoryProblems(trajs) ==
    [ m \in 1..(Len(RATING_BANDS) * BandTotal) |->
        LET i == ((m - 1) \div BandTotal) + 1
            j == ((m - 1) % BandTotal) + 1
        IN  Item(RATING_BANDS[i].lo, TrajectoryTags(trajs, i, j)) ]

InitRoadmap ==
    \E trajs \in SeqsUpTo(ThresholdTrajectories, MaxThresholdCats)
                 \cup { FrequentFrom(start, n) :
                          start \in 1..Len(FrequentTrajectories),
                          n \in 1..MaxFrequentCats } :
        Start(TrajectoryProblems(trajs))

SpecRoadmap == InitRoadmap /\ [][Next]_vars

(***************************************************************************)
(* Databases as main may find them, and a server answering requests        *)
(***************************************************************************)
\* What the tags column of a row may hold: the texts ["dp"], "dp", 5, null
\* and {"dp": 1}, the text ["dp" that is cut short, and NULL.
StoredTags ==
    { <<JsonDumps(PyList(<<PyStr("dp")>>))>>,
      <<JsonDumps(PyStr("dp"))>>,
      <<JsonDumps(PyInt(5))>>,
      <<JsonDumps(PyNone)>>,
      <<JsonDumps(PyDict(<<[key |-> "dp", value |-> PyInt(1)]>>))>>,
      << <<Punct("["), [s |-> "dp"]>> >>,
      <<>> }

\* The rating of a row: a rating of the first band, or NULL.
StoredRatings == { <<800>>, <<>> }

\* The table has at most MaxRows rows.
MaxRows == 2

\* No directory, no file, a file without the table, or a table of rows.
Databases ==
    { NoDirectory, NoDatabase, CreatedDatabase } \cup
    { [dir |-> TRUE, exists |-> TRUE, has_table |-> TRUE, rows |-> rows] :
        rows \in SeqsUpTo({ Row(r, tags) : r \in StoredRatings, tags \in StoredTags },
                          MaxRows) }

\* The export file before the run: none, or the document of an earlier run
\* on a table without rated rows.
EarlierDocument ==
    JsonDumps(export_real_data([i \in 1..Len(RATING_BANDS) |-> EmptyAnalysis]))

Files == { NoFile, FileWith(EarlierDocument) }

InitLoad == \E db \in Databases, f \in Files : StartOn(db, f)

NextLoad == Next \/ GetAnalysis

SpecLoad == InitLoad /\ [][NextLoad]_vars

(***************************************************************************)
(* fetch_codeforces.py: init_db and store_problems                         *)
(*                                                                         *)
(* A record of the API is held key by key: <<>> when the record lacks the  *)
(* key (p.get gives None), <<v>> when it holds v.  A row of the table has  *)
(* all six columns, each <<>> for NULL or <<v>>; the table is the sequence *)
(* of its rows in rowid order.                                             *)
(***************************************************************************)
Problem(contestId, index, name, rating, tags) ==
    [contestId |-> contestId, index |-> index, name |-> name, rating |-> rating,
     tags |-> tags]

Statistic(contestId, index, solvedCount) ==
    [contestId |-> contestId, index |-> index, solvedCount |-> solvedCount]

\* init_db(db_path): mkdir of the directory, connect, CREATE TABLE IF NOT
\* EXISTS: the rows of an existing table stay.
init_db(db) == [dir |-> TRUE, exists |-> TRUE, has_table |-> TRUE, rows |-> db.rows]

\* s["contestId"], s["index"] raise KeyError on a statistic without the key.
StatsRaise(stats) ==
    \E k \in 1..Len(stats) : stats[k].contestId = <<>> \/ stats[k].index = <<>>

\* solved_map after the first n statistics:
\* solved_map[(s["contestId"], s["index"])] = s.get("solvedCount", 0).
RECURSIVE SolvedMap(_, _)
SolvedMap(stats, n) ==
    IF n = 0 THEN <<>>
    ELSE DictSet(SolvedMap(stats, n - 1),
                 <<stats[n].contestId, stats[n].index>>,
                 IF stats[n].solvedCount = <<>> THEN 0 ELSE stats[n].solvedCount[1])

\* solved_map.get((contest_id, index), 0)
SolvedGet(solved_map, key) ==
    IF \E k \in 1..Len(solved_map) : solved_map[k].key = key
    THEN solved_map[CHOOSE k \in 1..Len(solved_map) : solved_map[k].key = key].value
    ELSE 0

\* if contest_id is None or index is None: skipped += 1; continue
Skipped(p) == p.contestId = <<>> \/ p.index = <<>>

\* The tuple appended to rows for a problem: rating may be None, tags is
\* json.dumps(p.get("tags", [])), name is p.get("name", "").
StoredTuple(p, solved_map) ==
    [contest_id    |-> p.contestId,
     problem_index |-> p.index,
     name          |-> IF p.name = <<>> THEN <<"">> ELSE p.name,
     rating        |-> p.rating,
     tags          |-> << JsonDumps(PyList(
                            IF p.tags = <<>> THEN <<>>
                            ELSE [k \in 1..Len(p.tags[1]) |-> PyStr(p.tags[1][k])])) >>,
     solved_count  |-> << SolvedGet(solved_map, <<p.contestId, p.index>>) >>]

\* rows after the loop over problems (records here).
StoredTuples(records, solved_map) ==
    LET kept == SelectSeq(records, LAMBDA p : ~Skipped(p))
    IN  [k \in 1..Len(kept) |-> StoredTuple(kept[k], solved_map)]

\* Two rows collide on the primary key (contest_id, problem_index); a NULL
\* in a key column collides with nothing.
SameKey(r, row) ==
    /\ r.contest_id # <<>> /\ r.problem_index # <<>>
    /\ r.contest_id = row.contest_id
    /\ r.problem_index = row.problem_index

\* A plain insertion that keeps the rows already there.
InsertOnly(table, row) == Append(table, row)

\* INSERT OR REPLACE of one row: the row with the same key is deleted, and
\* the new row gets the next rowid.
InsertOrReplace(table, row) ==
    Append(SelectSeq(table, LAMBDA r : ~SameKey(r, row)), row)

\* conn.executemany over the first n rows.
RECURSIVE ExecuteMany(_, _, _)
ExecuteMany(table, rows, n) ==
    IF n = 0 THEN table
    ELSE InsertOrReplace(ExecuteMany(table, rows, n - 1), rows[n])

\* store_problems(conn, problems, stats) on a database with the table, when
\* no statistic raises.
store_problems(db, records, stats) ==
    LET rows == StoredTuples(records, SolvedMap(stats, Len(stats)))
    IN  [db EXCEPT !.rows = ExecuteMany(db.rows, rows, Len(rows))]

(***************************************************************************)
(* The fetcher's main, run again and again on the same database            *)
(***************************************************************************)
\* The records fetch_problems may return: for problem 1A or 2A, or without
\* contestId or without index; with all of name, rating and tags or none of
\* them.
FetchedProblems ==
    { Problem(id[1], id[2], v.name, v.rating, v.tags) :
        id \in { << <<1>>, <<"A">> >>, << <<2>>, <<"A">> >>,
                 << <<>>, <<"A">> >>, << <<1>>, <<>> >> },
        v \in { [name |-> <<"Watermelon">>, rating |-> <<800>>, tags |-> << <<"dp", "math">> >>],
                [name |-> <<>>, rating |-> <<>>, tags |-> <<>>] } }

\* The statistics it may return: none, one for either problem with or
\* without solvedCount, two for the same problem, one without contestId.
FetchedStatistics ==
    { <<>>,
      << Statistic(<<1>>, <<"A">>, <<5>>) >>,
      << Statistic(<<1>>, <<"A">>, <<>>) >>,
      << Statistic(<<2>>, <<"A">>, <<7>>) >>,
      << Statistic(<<1>>, <<"A">>, <<5>>), Statistic(<<1>>, <<"A">>, <<9>>) >>,
      << Statistic(<<>>, <<"A">>, <<5>>) >> }

\* A fetch returns at most MaxBatch problems.
MaxBatch == 2

InitStore ==
    /\ database \in { NoDirectory, NoDatabase, CreatedDatabase }
    /\ file = NoFile
    /\ problems = <<>>
    /\ all_analyses = <<>>
    /\ displayed = <<>>
    /\ progression = <<>>
    /\ roadmap = <<>>
    /\ raised = ""
    /\ response = NoResponse
    /\ fetched = NoFetch
    /\ pc = "fetch"

\* problems, stats = fetch_problems(), at the start of a run of main.
FetchProblems ==
    /\ pc \in { "fetch", "raised" }
    /\ \E batch \in SeqsUpTo(FetchedProblems, MaxBatch), stats \in FetchedStatistics :
           fetched' = [problems |-> batch, stats |-> stats]
    /\ raised' = ""
    /\ pc' = "init_db"
    /\ UNCHANGED <<database, problems, all_analyses, displayed, progression,
                   roadmap, file, response>>

\* conn = init_db(DB_PATH)
InitDb ==
    /\ pc = "init_db"
    /\ database' = init_db(database)
    /\ pc' = "store"
    /\ UNCHANGED <<fetched, problems, all_analyses, displayed, progression,
                   roadmap, file, raised, response>>

\* store_problems(conn, problems, stats).  A KeyError in the loop over
\* stats ends main, and with it main's problems and stats, before anything
\* is inserted.
StoreProblems ==
    /\ pc = "store"
    /\ IF StatsRaise(fetched.stats)
       THEN /\ raised' = "KeyError"
            /\ fetched' = NoFetch
            /\ pc' = "raised"
            /\ UNCHANGED database
       ELSE /\ database' = store_problems(database, fetched.problems, fetched.stats)
            /\ pc' = "stored"
            /\ UNCHANGED <<fetched, raised>>
    /\ UNCHANGED <<problems, all_analyses, displayed, progression, roadmap, file,
                   response>>

\* print_summary(conn); conn.close(): the end of main.
Close ==
    /\ pc = "stored"
    /\ fetched' = NoFetch
    /\ pc' = "fetch"
    /\ UNCHANGED <<database, problems, all_analyses, displayed, progression,
                   roadmap, file, raised, response>>

NextStore == FetchProblems \/ InitDb \/ StoreProblems \/ Close

SpecStore == InitStore /\ [][NextStore]_vars

(***************************************************************************)
(* What the claims speak of, stated on the item collection itself          *)
(***************************************************************************)
\* The bands analysed so far.
Analysed == 1..Len(all_analyses)

\* The positions of the items whose rating r satisfies lo <= r < hi for
\* band i.
BandItems(i) ==
    { k \in 1..Len(problems) :
        /\ RATING_BANDS[i].lo <= problems[k].rating
        /\ problems[k].rating < RATING_BANDS[i].hi }

\* The tags that occur in the items of band i.
BandTags(i) ==
    UNION { { problems[k].tags[j] : j \in 1..Len(problems[k].tags) } :
            k \in BandItems(i) }

\* The category a raw tag stands for, as the Tag Normalizer is specified:
\* the mapped category, the raw tag when unmapped, none for a tag mapped to
\* None.
Normalizer ==
    [ tag \in TableKeys |->
        IF tag \in NONE_TAGS THEN {}
        ELSE { e[2] : e \in { x \in TAG_TO_CATEGORY : x[1] = tag } } ]

CategoriesOf(tag) == IF tag \in TableKeys THEN Normalizer[tag] ELSE { tag }

Normalizes(tag, c) == c \in CategoriesOf(tag)

\* The categories that the tags of the items of band i normalize to.
BandCategories(i) == UNION { CategoriesOf(t) : t \in BandTags(i) }

\* The items of band i that have at least one tag normalizing to c.
TouchingItems(i, c) ==
    { k \in BandItems(i) :
        \E j \in 1..Len(problems[k].tags) : Normalizes(problems[k].tags[j], c) }

\* The occurrences <<item, position>> of raw tag t in the items of band i.
Occurrences(i, t) ==
    UNION { { <<k, j>> : j \in { j \in 1..Len(problems[k].tags) :
                                   problems[k].tags[j] = t } } :
            k \in BandItems(i) }

\* The entries of a table.
Entries(d) == { d[k] : k \in 1..Len(d) }

HasRawTags(a) == "raw_tags" \in DOMAIN a

(***************************************************************************)
(* C1: the band is the half-open interval [lo, hi)                         *)
(***************************************************************************)
\* C1: for every band analysed, total is exactly the number of items with
\* lo <= rating < hi (an item rated lo is in, an item rated hi is out), and
\* no category count and no raw-tag count exceeds what the items inside the
\* interval account for, so that no item outside it contributes.
C1_HalfOpenBand ==
    \A i \in Analysed :
        LET a == all_analyses[i]
        IN  /\ a.total = Cardinality(BandItems(i))
            /\ \A e \in Entries(a.categories) :
                   e.count <= Cardinality(TouchingItems(i, e.key))
            /\ HasRawTags(a) =>
                   \A e \in Entries(a.raw_tags) :
                       e.val <= Cardinality(Occurrences(i, e.key))

\* A band analysed with one tagged item rated exactly lo and another tagged
\* item rated exactly hi.
C1_Witness ==
    \E i \in Analysed :
        /\ \E k \in 1..Len(problems) :
               /\ problems[k].rating = RATING_BANDS[i].lo
               /\ problems[k].tags # <<>>
        /\ \E k \in 1..Len(problems) :
               /\ problems[k].rating = RATING_BANDS[i].hi
               /\ \E j \in 1..Len(problems[k].tags) :
                      Normalizes(problems[k].tags[j], "xyz")
        /\ all_analyses[i].total = 1

(***************************************************************************)
(* C2: one count per item and category                                     *)
(***************************************************************************)
\* C2: for every band analysed, the count reported for a category is the
\* number of distinct items of the band with at least one tag normalizing
\* to it, however many such tags an item carries; and every category named
\* by a non-empty string that an item of the band touches is reported.
C2_CountsDistinctItems ==
    \A i \in Analysed :
        LET a == all_analyses[i]
        IN  /\ \A e \in Entries(a.categories) :
                   e.count = Cardinality(TouchingItems(i, e.key))
            /\ \A c \in BandCategories(i) \ {""} :
                   \E e \in Entries(a.categories) : e.key = c

\* An item of an analysed band carries two tags (two raw tags, or one raw
\* tag twice) normalizing to one category, which is reported with count 1.
C2_Witness ==
    \E i \in Analysed : \E k \in BandItems(i) :
        \E j1, j2 \in 1..Len(problems[k].tags) : \E e \in Entries(all_analyses[i].categories) :
            /\ j1 < j2
            /\ problems[k].tags[j1] # problems[k].tags[j2]
            /\ Normalizes(problems[k].tags[j1], e.key)
            /\ Normalizes(problems[k].tags[j2], e.key)
            /\ e.count = 1

(***************************************************************************)
(* C3: raw tags are counted per occurrence                                 *)
(***************************************************************************)
\* C3: for every non-empty band analysed, the raw-tag table holds exactly
\* the tags that occur in the items of the band, each with the number of its
\* occurrences summed over the tag lists of those items.
C3_RawTagOccurrences ==
    \A i \in Analysed :
        LET a == all_analyses[i]
        IN  a.total > 0 =>
              /\ HasRawTags(a)
              /\ { e.key : e \in Entries(a.raw_tags) } = BandTags(i)
              /\ \A e \in Entries(a.raw_tags) :
                     e.val = Cardinality(Occurrences(i, e.key))

\* One item of an analysed band carries the same raw tag twice, and the raw
\* count of the tag is 2 while the category it maps to has count 1.
C3_Witness ==
    \E i \in Analysed :
        LET a == all_analyses[i]
        IN  /\ a.total = 1
            /\ \E e \in Entries(a.raw_tags) :
                   /\ e.val = 2
                   /\ \E c \in Entries(a.categories) :
                          Normalizes(e.key, c.key) /\ c.count = 1

(***************************************************************************)
(* C4: the empty band                                                      *)
(***************************************************************************)
\* C4 as claimed: a band without items yields total = 0, an empty category
\* table and an empty raw-tag table.
C4_EmptyBandHasEmptyRawTable ==
    \A i \in Analysed :
        LET a == all_analyses[i]
        IN  BandItems(i) = {} =>
              /\ a.total = 0
              /\ a.categories = <<>>
              /\ HasRawTags(a)
              /\ a.raw_tags = <<>>

\* C4 as amended: a band without items yields total = 0 and an empty
\* category table, and the result holds no raw-tag table at all; no
\* frequency is computed for it.
C4_EmptyBandResult ==
    \A i \in Analysed :
        LET a == all_analyses[i]
        IN  BandItems(i) = {} =>
              /\ a.total = 0
              /\ a.categories = <<>>
              /\ ~HasRawTags(a)
              /\ displayed[i] = <<>>

\* A band analysed that holds no item while the collection holds tagged
\* items of another band.
C4_Witness ==
    \E i \in Analysed :
        /\ BandItems(i) = {}
        /\ \E k \in 1..Len(problems) : problems[k].tags # <<>>
        /\ all_analyses[i].total = 0

(***************************************************************************)
(* C5: counts and frequencies are bounded by the band total                *)
(***************************************************************************)
\* C5: in every analysis, every category count is at most the band total,
\* every frequency lies in [0, 1] (0..10000 ten-thousandths), and a band
\* of total 0 has an empty category table.
C5_CountAndFrequencyBounds ==
    \A i \in Analysed :
        LET a == all_analyses[i]
        IN  /\ \A e \in Entries(a.categories) :
                   /\ 1 <= e.count /\ e.count <= a.total
                   /\ 0 <= e.frequency /\ e.frequency <= 10000
            /\ a.total = 0 => a.categories = <<>>

\* A band whose items carry a repeated tag, an unmapped tag and no tag at
\* all, with a category at frequency 1 and another below it.
C5_Witness ==
    \E i \in Analysed :
        LET a == all_analyses[i]
        IN  /\ \E k \in BandItems(i) : problems[k].tags = <<>>
            /\ \E k \in BandItems(i) :
                   /\ Len(problems[k].tags) = 2
                   /\ problems[k].tags[1] = problems[k].tags[2]
                   /\ problems[k].tags[1] \notin TableKeys
            /\ \E e \in Entries(a.categories) :
                   e.count < a.total /\ e.frequency < 10000

(***************************************************************************)
(* C6: the frequency is count / total rounded to 4 decimals                *)
(***************************************************************************)
\* 10000 * count / total lies exactly between two integers.
ExactHalf(count, total) == 2 * ((10000 * count) % total) = total

\* The integer nearest to 10000 * count / total, an exact half going the
\* way of the rule: "even" and "odd" name the last digit kept, "up" and
\* "down" the direction.
RoundHalf(rule, count, total) ==
    LET q == (10000 * count) \div total
    IN  IF 2 * ((10000 * count) % total) < total THEN q
        ELSE IF 2 * ((10000 * count) % total) > total THEN q + 1
        ELSE CASE rule = "even" -> IF q % 2 = 0 THEN q ELSE q + 1
               [] rule = "odd"  -> IF q % 2 = 0 THEN q + 1 ELSE q
               [] rule = "up"   -> q + 1
               [] rule = "down" -> q

TieRules == { "even", "odd", "up", "down" }

\* C6 as claimed: in every band analysed, the frequencies are the counts
\* over the total rounded to the nearest ten-thousandth under one rule for
\* exact halves, the same rule for every category of the band.
C6_OneRuleForHalves ==
    \A i \in Analysed :
        LET a == all_analyses[i]
        IN  \E rule \in TieRules :
                \A e \in Entries(a.categories) :
                    e.frequency = RoundHalf(rule, e.count, a.total)

\* C6 as amended: in every band analysed, with total > 0, every frequency
\* is an integer number of ten-thousandths nearest to 10000 * count / total
\* (on an exact half, either of the two nearest), and two categories of the
\* band with equal counts have equal frequencies.
C6_NearestTenThousandth ==
    \A i \in Analysed :
        LET a == all_analyses[i]
        IN  /\ \A e \in Entries(a.categories) :
                   LET d == e.frequency * a.total - 10000 * e.count
                   IN  2 * d <= a.total /\ 2 * (0 - d) <= a.total
            /\ \A e1, e2 \in Entries(a.categories) :
                   e1.count = e2.count => e1.frequency = e2.frequency

\* A band analysed where two categories stand at exact halves, one rounded
\* up to an odd digit and the other down to an even one.
C6_Witness ==
    \E i \in Analysed :
        LET a == all_analyses[i]
        IN  \E e1, e2 \in Entries(a.categories) :
                /\ ExactHalf(e1.count, a.total)
                /\ ExactHalf(e2.count, a.total)
                /\ e1.frequency = (10000 * e1.count) \div a.total + 1
                /\ e1.frequency % 2 = 1
                /\ e2.frequency = (10000 * e2.count) \div a.total
                /\ e2.frequency % 2 = 0

(***************************************************************************)
(* C7: the fallback for unmapped tags                                      *)
(***************************************************************************)
\* C7 as claimed: every raw tag that is not a key of the table is its own
\* category, so an item of an analysed band that carries such a tag is
\* counted under the category named exactly by the raw string.
C7_UnmappedTagIsItsOwnCategory ==
    \A i \in Analysed : \A k \in BandItems(i) :
        \A j \in 1..Len(problems[k].tags) :
            LET tag == problems[k].tags[j]
            IN  tag \notin TableKeys =>
                  \E e \in Entries(all_analyses[i].categories) :
                      e.key = tag /\ e.count >= 1

(***************************************************************************)
(* C8: the order of the category table                                     *)
(***************************************************************************)
\* The places <<item, position>> where a tag normalizing to c stands in the
\* items of band i.
Places(i, c) ==
    UNION { { <<k, j>> : j \in { j \in 1..Len(problems[k].tags) :
                                   Normalizes(problems[k].tags[j], c) } } :
            k \in BandItems(i) }

\* p comes before q in the scan: items in input order, and the tags of an
\* item in list order.
ScannedBefore(p, q) == p[1] < q[1] \/ (p[1] = q[1] /\ p[2] < q[2])

\* The place where category c is first met in the scan of band i.
FirstMet(i, c) ==
    CHOOSE p \in Places(i, c) : \A q \in Places(i, c) : p = q \/ ScannedBefore(p, q)

\* C8: the category table is in non-increasing order of count, and of two
\* categories with equal counts the one first met in the scan comes first.
C8_TableOrder ==
    \A i \in Analysed :
        LET cats == all_analyses[i].categories
        IN  \A p, q \in 1..Len(cats) :
                p < q =>
                  /\ cats[p].count >= cats[q].count
                  /\ cats[p].count = cats[q].count =>
                         ScannedBefore(FirstMet(i, cats[p].key),
                                       FirstMet(i, cats[q].key))

\* A band whose table holds two categories of equal count, the first of
\* them met first although it comes second alphabetically.
C8_Witness ==
    \E i \in Analysed :
        LET cats == all_analyses[i].categories
        IN  /\ Len(cats) = 2
            /\ cats[1].count = cats[2].count
            /\ cats[1].key = "xyz"
            /\ cats[2].key = "Flows & Matching"

(***************************************************************************)
(* C9, C10: the new/growing list of the roadmap                            *)
(***************************************************************************)
\* The roadmap has been derived.
RoadmapDone == pc \in { "export", "dump", "done" }

\* The frequency of category c in band i, in ten-thousandths; 0 when the
\* band's table does not hold c.
Frequency(i, c) ==
    LET es == { e \in Entries(all_analyses[i].categories) : e.key = c }
    IN  IF es = {} THEN 0 ELSE (CHOOSE e \in es : TRUE).frequency

\* freq(i) - freq(i-1), as a difference of the two decimal numbers.
Growth(i, c) == Frequency(i, c) - Frequency(i - 1, c)

\* The categories on the new/growing list of band i.
Listed(i) == { e.key : e \in Entries(roadmap[i].new_or_growing) }

\* C9 as claimed: for every band after the first, the new/growing list
\* holds exactly the categories of the band with frequency >= 0.10 whose
\* growth is >= 0.03 or that had frequency < 0.05 in the band before and
\* have frequency >= 0.08 now (absent before counts as 0); the list is in
\* non-increasing order of growth, and its first 6 entries are shown.
C9_NewOrGrowingList ==
    RoadmapDone =>
      \A i \in 2..Len(RATING_BANDS) :
          LET list == roadmap[i].new_or_growing
          IN  /\ Listed(i) =
                   { e.key : e \in
                       { x \in Entries(all_analyses[i].categories) :
                           /\ x.frequency >= 1000
                           /\ \/ Growth(i, x.key) >= 300
                              \/ /\ Frequency(i - 1, x.key) < 500
                                 /\ x.frequency >= 800 } }
              /\ \A p, q \in 1..Len(list) :
                     p < q => Growth(i, list[p].key) >= Growth(i, list[q].key)
              /\ roadmap[i].growing =
                     SubSeq(list, 1, IF Len(list) < 6 THEN Len(list) ELSE 6)

\* C10 as claimed: a category at frequency 0.04 in one band and 0.09 in the
\* next is on the new/growing list of the latter.
C10_ListedFrom004To009 ==
    RoadmapDone =>
      \A i \in 2..Len(RATING_BANDS) :
          \A e \in Entries(all_analyses[i].categories) :
              (e.frequency = 900 /\ Frequency(i - 1, e.key) = 400)
                  => e.key \in Listed(i)

\* C10 as amended: only categories with frequency >= 0.10 are listed, so a
\* category going from 0.04 to 0.09 is not; a category with frequency < 0.05
\* before and >= 0.10 now is listed; and whenever a listed category had
\* frequency < 0.05 before, its computed growth is >= 0.03 as well, so the
\* clause on the previous frequency never lists a category by itself.
C10_ListedOnlyFromTenPercent ==
    RoadmapDone =>
      \A i \in 2..Len(RATING_BANDS) :
          /\ \A c \in Listed(i) : Frequency(i, c) >= 1000
          /\ \A e \in Entries(all_analyses[i].categories) :
                 (e.frequency = 900 /\ Frequency(i - 1, e.key) = 400)
                     => e.key \notin Listed(i)
          /\ \A e \in Entries(all_analyses[i].categories) :
                 (e.frequency >= 1000 /\ Frequency(i - 1, e.key) < 500)
                     => e.key \in Listed(i)
          /\ \A x \in Entries(roadmap[i].new_or_growing) :
                 Frequency(i - 1, x.key) < 500
                     => FloatGE(x.growth, FloatLit(300))

\* The roadmap derived from bands where a category goes from 0.04 to 0.09
\* and stays off the list, and where a category that had frequency >= 0.05
\* before is listed, by its growth alone.
C10_Witness ==
    /\ RoadmapDone
    /\ \E i \in 2..Len(RATING_BANDS) :
           \E e \in Entries(all_analyses[i].categories) :
               /\ e.frequency = 900
               /\ Frequency(i - 1, e.key) = 400
               /\ e.key \notin Listed(i)
    /\ \E i \in 2..Len(RATING_BANDS) :
           \E c \in Listed(i) :
               /\ Frequency(i - 1, c) >= 500
               /\ Growth(i, c) >= 300

(***************************************************************************)
(* C11, C12: the first band's entry and the dominant list                  *)
(***************************************************************************)
\* The entries of table s with frequency >= least, in the order of s.
AtLeast(s, least) == SelectSeq(s, LAMBDA e : e.frequency >= least)

\* The first n entries of s, or all of s when it has fewer.
FirstN(s, n) == SubSeq(s, 1, IF Len(s) < n THEN Len(s) ELSE n)

\* s is in non-increasing order of frequency.
FrequencyDescending(s) ==
    \A p, q \in 1..Len(s) : p < q => s[p].frequency >= s[q].frequency

\* C11: the roadmap entry of the first band is the categories of that band
\* with frequency >= 0.10, in the order of the band's table, which is
\* descending in frequency, cut to the first 6; the first band gets no
\* new/growing list and no dominant list.
C11_FirstBandEntry ==
    RoadmapDone =>
      LET top == AtLeast(all_analyses[1].categories, 1000)
      IN  /\ roadmap[1].first = FirstN(top, 6)
          /\ FrequencyDescending(roadmap[1].first)
          /\ roadmap[1].new_or_growing = <<>>
          /\ roadmap[1].growing = <<>>
          /\ roadmap[1].dominant = <<>>

\* The roadmap derived when the first band has more than 6 categories with
\* frequency >= 0.10, one of them at 0.20 or more, and the entry shows 6.
C11_Witness ==
    /\ RoadmapDone
    /\ Len(AtLeast(all_analyses[1].categories, 1000)) > 6
    /\ Len(AtLeast(all_analyses[1].categories, 2000)) > 0
    /\ Len(roadmap[1].first) = 6

\* C12: for every band after the first, the dominant list is the categories
\* of the band with frequency >= 0.20, in the order of the band's table,
\* which is descending in frequency, cut to the first 5, whatever the
\* new/growing list of the band holds.
C12_DominantList ==
    RoadmapDone =>
      \A i \in 2..Len(RATING_BANDS) :
          /\ roadmap[i].dominant =
                 FirstN(AtLeast(all_analyses[i].categories, 2000), 5)
          /\ FrequencyDescending(roadmap[i].dominant)

\* The roadmap derived when a later band has more than 5 categories with
\* frequency >= 0.20 and none new or growing, and another later band has
\* both lists filled.
C12_Witness ==
    /\ RoadmapDone
    /\ \E i \in 2..Len(RATING_BANDS) :
           /\ Len(AtLeast(all_analyses[i].categories, 2000)) > 5
           /\ Len(roadmap[i].dominant) = 5
    /\ \E i \in 2..Len(RATING_BANDS) :
           /\ roadmap[i].new_or_growing = <<>>
           /\ roadmap[i].dominant # <<>>
    /\ \E i \in 2..Len(RATING_BANDS) :
           /\ roadmap[i].new_or_growing # <<>>
           /\ roadmap[i].dominant # <<>>

(***************************************************************************)
(* C13: the tabular views and the threshold of 0.05                        *)
(***************************************************************************)
\* The progression table has been printed.
ProgressionDone == pc \in { "roadmap", "export", "dump", "done" }

\* C13 as claimed: no row of a band's table and no cell of the progression
\* table shows a category for a band where its frequency is below 0.05,
\* and every category counted in a band, shown or not, is in the band's
\* category table.
C13_TabularViewsFromFivePercent ==
    /\ \A i \in Analysed :
           /\ \A row \in Entries(displayed[i]) : row.frequency >= 500
           /\ \A row \in Entries(displayed[i]) :
                  row \in Entries(all_analyses[i].categories)
    /\ ProgressionDone =>
           \A c \in 1..Len(key_categories) : \A i \in 1..Len(RATING_BANDS) :
               progression[c][i] # -1 => Frequency(i, key_categories[c]) >= 500

(***************************************************************************)
(* C14: the exported document                                              *)
(***************************************************************************)
\* export_real_data has returned.
ExportDone == pc = "done"

\* The value a parser reads from the export file.
ParsedFile == JsonLoads(file.text).value

\* The value under key in the members of a parsed object.
Member(object, key) ==
    (CHOOSE m \in Entries(object.members) : m.key = key).value

MemberKeys(object) == [k \in 1..Len(object.members) |-> object.members[k].key]

\* C14: once the export is done the file parses as a document with
\* exactly one entry per band of RATING_BANDS, in order, bands of total 0
\* included; the entry of the band lo..hi is keyed "lo-hi" and holds the
\* band's label, total_problems equal to the total of the analysis, and
\* techniques with exactly the categories of the analysis, each with its
\* frequency and, as problem_count, its count, as the analysis holds them.
C14_ExportedDocument ==
    ExportDone =>
      /\ file.exists
      /\ JsonLoads(file.text).ok
      /\ ParsedFile.type = "dict"
      /\ Len(ParsedFile.members) = Len(RATING_BANDS)
      /\ \A i \in 1..Len(RATING_BANDS) :
             LET entry == ParsedFile.members[i]
                 a     == all_analyses[i]
                 techs == Member(entry.value, "techniques")
             IN  /\ entry.key = ToString(RATING_BANDS[i].lo) \o "-"
                                  \o ToString(RATING_BANDS[i].hi)
                 /\ MemberKeys(entry.value) = << "label", "total_problems", "techniques" >>
                 /\ Member(entry.value, "label") = [type |-> "str", s |-> RATING_BANDS[i].label]
                 /\ Member(entry.value, "total_problems") = [type |-> "int", n |-> a.total]
                 /\ MemberKeys(techs) = [k \in 1..Len(a.categories) |-> a.categories[k].key]
                 /\ \A k \in 1..Len(a.categories) :
                        /\ MemberKeys(techs.members[k].value) = << "frequency", "problem_count" >>
                        /\ Member(techs.members[k].value, "frequency")
                               = [type |-> "float", f |-> a.categories[k].frequency]
                        /\ Member(techs.members[k].value, "problem_count")
                               = [type |-> "int", n |-> a.categories[k].count]

\* The export done for a run with a band of total 0 and a band with two
\* categories, one at frequency 1.0 and one below 0.01.
C14_Witness ==
    /\ ExportDone
    /\ \E i \in 1..Len(RATING_BANDS) : all_analyses[i].total = 0
    /\ \E i \in 1..Len(RATING_BANDS) :
           /\ Len(all_analyses[i].categories) = 2
           /\ all_analyses[i].categories[1].frequency = 10000
           /\ all_analyses[i].categories[2].frequency < 100
           /\ Len(Member(ParsedFile.members[i].value, "techniques").members) = 2


(***************************************************************************)
(* C15                                                                     *)
(***************************************************************************)
\* The document that the run exports.
NewDocument == FileWith(JsonDumps(export_real_data(all_analyses)))

\* C15: the export is all or nothing: every step of the run leaves the export
\* file as it was before the step (absent, or the complete document of an
\* earlier run), or puts the complete new document in its place; the file
\* never holds a part of a document.
C15_ExportIsAllOrNothing ==
    [][ file' = file \/ (Len(all_analyses) = Len(RATING_BANDS) /\ file' = NewDocument) ]_vars


(***************************************************************************)
(* C16                                                                     *)
(***************************************************************************)
\* The stored tags of a row are a valid tag collection: a text that parses
\* to a list of strings.
ValidTagCollection(tags) ==
    /\ tags # <<>>
    /\ JsonLoads(tags[1]).ok
    /\ JsonLoads(tags[1]).value.type = "list"
    /\ \A k \in 1..Len(JsonLoads(tags[1]).value.items) :
          JsonLoads(tags[1]).value.items[k].type = "str"

\* A rated row of the table has stored tags that are not a valid collection.
MalformedRow ==
    /\ database.has_table
    /\ \E k \in 1..Len(database.rows) :
          /\ database.rows[k].rating # <<>>
          /\ ~ValidTagCollection(database.rows[k].tags)

\* C16: when the stored tags of some rated row are not a valid tag collection
\* (unparseable, or a bare string, a number, an object, null), the load
\* fails: once the load step is over the run has raised, no item was handed
\* over and no band was analysed.
C16_MalformedTagsFailAtLoad ==
    (pc # "load" /\ MalformedRow) =>
        /\ pc = "raised"
        /\ raised # ""
        /\ problems = <<>>
        /\ all_analyses = <<>>


(***************************************************************************)
(* C17                                                                     *)
(***************************************************************************)
\* The step that connects and loads.
LoadStep == pc = "load" /\ pc' # "load"

\* A step in which the server answers a request.
AnswerStep == response' # response

\* The export files that exist.
ExistingFiles == { TruncatedFile, FileWith(EarlierDocument) }

\* C17: a missing input is reported as a not-found failure of its own.  A
\* load from a database that is missing ends the run with a failure that no
\* database that exists produces, and leaves the export file alone; a request
\* for an export file that is missing is answered with a status that no
\* existing file is answered with, and not with a document.
C17_MissingInputIsNotFound ==
    [][ /\ (LoadStep /\ ~database.exists) =>
              /\ pc' = "raised"
              /\ raised' # ""
              /\ file' = file
              /\ \A db \in Databases : db.exists => ConnectAndLoad(db).raised # raised'
        /\ (AnswerStep /\ ~file.exists) =>
              /\ response'.status # 200
              /\ \A f \in ExistingFiles : get_analysis(f).status # response'.status
      ]_vars


(***************************************************************************)
(* C18: the items and the analyses are not changed after they are made     *)
(***************************************************************************)
\* What analyze_band returns for band i on the loaded items.
ReturnedBy(i) == analyze_band(problems, RATING_BANDS[i].lo, RATING_BANDS[i].hi)

\* The techniques of a band as they stand in the exported document: name,
\* frequency and problem_count, in order.
ExportedTechniques(i) ==
    LET techs == Member(ParsedFile.members[i].value, "techniques").members
    IN  [k \in 1..Len(techs) |->
           [key |-> techs[k].key,
            frequency |-> Member(techs[k].value, "frequency").f,
            count |-> Member(techs[k].value, "problem_count").n]]

\* The position of category c in the table of analysis i.
TablePlace(i, c) ==
    CHOOSE k \in 1..Len(all_analyses[i].categories) : all_analyses[i].categories[k].key = c

\* C18: no step after the load changes the loaded items; no step changes an
\* analysis that is already in all_analyses (the displays, the roadmap and
\* the export only read them); so the exported document holds, band by
\* band, the total and the categories with the counts and frequencies that
\* analyze_band returns for the loaded items.
C18_AnalysesAreNotMutated ==
    /\ [][ /\ (pc # "load" => problems' = problems)
           /\ Len(all_analyses') >= Len(all_analyses)
           /\ \A i \in 1..Len(all_analyses) : all_analyses'[i] = all_analyses[i]
         ]_vars
    /\ [](ExportDone =>
            \A i \in 1..Len(RATING_BANDS) :
                /\ all_analyses[i] = ReturnedBy(i)
                /\ Member(ParsedFile.members[i].value, "total_problems").n
                       = ReturnedBy(i).total
                /\ ExportedTechniques(i) = ReturnedBy(i).categories)

\* The export done after a roadmap that listed two categories of a band in
\* the order opposite to the one of the band's table, and that showed fewer
\* categories than it had found.
C18_Witness ==
    /\ ExportDone
    /\ problems # <<>>
    /\ \E i \in 2..Len(RATING_BANDS) :
           /\ Len(roadmap[i].growing) < Len(roadmap[i].new_or_growing)
           /\ \E j, k \in 1..Len(roadmap[i].new_or_growing) :
                 /\ j < k
                 /\ TablePlace(i, roadmap[i].new_or_growing[j].key)
                      > TablePlace(i, roadmap[i].new_or_growing[k].key)


(***************************************************************************)
(* C19: the sentinel tag                                                   *)
(***************************************************************************)
Sentinel == "*special"

\* The loaded items with every occurrence of the sentinel taken out of
\* their tags.
WithoutSentinel ==
    [k \in 1..Len(problems) |->
        [problems[k] EXCEPT !.tags = SelectSeq(@, LAMBDA tag : tag # Sentinel)]]

\* C19: in every band analysed, the category table is the one the band has
\* with the sentinel taken out of all items, and has no category of the
\* sentinel's name; the raw-tag table counts the sentinel by its occurrences
\* like any tag; and the total is the number of items of the band, those
\* tagged with the sentinel alone or not at all included.
C19_SentinelTag ==
    \A i \in Analysed :
        LET a    == all_analyses[i]
            bare == analyze_band(WithoutSentinel, RATING_BANDS[i].lo, RATING_BANDS[i].hi)
        IN  /\ a.categories = bare.categories
            /\ \A e \in Entries(a.categories) : e.key # Sentinel
            /\ a.total = Cardinality(BandItems(i))
            /\ a.total = bare.total
            /\ Occurrences(i, Sentinel) # {} =>
                  \E e \in Entries(a.raw_tags) :
                      e.key = Sentinel /\ e.val = Cardinality(Occurrences(i, Sentinel))

\* An analysed band of three items, one tagged with the sentinel alone, one
\* without tags and one with a mapped tag: the sentinel has raw count 1 and
\* the only category has count 1 and frequency 0.3333.
C19_Witness ==
    \E i \in Analysed :
        LET a == all_analyses[i]
        IN  /\ a.total = 3
            /\ \E k \in BandItems(i) : problems[k].tags = << Sentinel >>
            /\ \E k \in BandItems(i) : problems[k].tags = <<>>
            /\ \E e \in Entries(a.raw_tags) : e.key = Sentinel /\ e.val = 1
            /\ Len(a.categories) = 1
            /\ a.categories[1].count = 1
            /\ a.categories[1].frequency = 3333

(***************************************************************************)
(* C20: the early exit of display_band                                     *)
(***************************************************************************)
\* C20: for every band displayed, the frequencies do not increase along the
\* category table, and the rows printed are exactly the categories of the
\* table with frequency >= 0.05, in table order: the exit at the first
\* category below 0.05 hides no category at or above it.
C20_EarlyExitIsAFilter ==
    \A i \in 1..Len(displayed) :
        /\ FrequencyDescending(all_analyses[i].categories)
        /\ displayed[i] = AtLeast(all_analyses[i].categories, MIN_FREQUENCY)

\* A band displayed whose last row is a category at exactly 0.05, with a
\* category below 0.05 left out.
C20_Witness ==
    \E i \in 1..Len(displayed) :
        /\ Len(displayed[i]) >= 1
        /\ displayed[i][Len(displayed[i])].frequency = MIN_FREQUENCY
        /\ Len(all_analyses[i].categories) > Len(displayed[i])

(***************************************************************************)
(* C21: one row per (contest_id, problem_index)                            *)
(***************************************************************************)
\* The pair of a row of the table, and of a fetched record.
RowPair(r) == <<r.contest_id, r.problem_index>>
RecordPair(p) == <<p.contestId, p.index>>

\* The record has both a contest id and an index.
HasPair(p) == p.contestId # <<>> /\ p.index # <<>>

\* The pairs of the records of a batch that have both.
BatchPairs(batch) == { RecordPair(batch[k]) : k \in { k \in 1..Len(batch) : HasPair(batch[k]) } }

\* The last record of the batch with the pair.
LastRecord(batch, pair) ==
    batch[CHOOSE k \in 1..Len(batch) :
            /\ RecordPair(batch[k]) = pair
            /\ \A j \in (k + 1)..Len(batch) : RecordPair(batch[j]) # pair]

\* The solved count the statistics give for the pair: that of the last
\* statistic with the pair, 0 when it has none or when no statistic matches.
SolvedCount(stats, pair) ==
    LET matching == { k \in 1..Len(stats) : <<stats[k].contestId, stats[k].index>> = pair }
    IN  IF matching = {} THEN 0
        ELSE LET k == CHOOSE k \in matching : \A j \in matching : j <= k
             IN  IF stats[k].solvedCount = <<>> THEN 0 ELSE stats[k].solvedCount[1]

\* The row carries the values of the record, and the solved count of the
\* statistics.
Carries(r, p, stats) ==
    /\ RowPair(r) = RecordPair(p)
    /\ r.name = (IF p.name = <<>> THEN <<"">> ELSE p.name)
    /\ r.rating = p.rating
    /\ r.tags # <<>>
    /\ JsonLoads(r.tags[1]).ok
    /\ JsonLoads(r.tags[1]).value =
          PyList(IF p.tags = <<>> THEN <<>>
                 ELSE [k \in 1..Len(p.tags[1]) |-> PyStr(p.tags[1][k])])
    /\ r.solved_count = << SolvedCount(stats, RecordPair(p)) >>

\* The rows of a table whose pair is not among the given ones, in order.
RowsOutside(rows, pairs) == SelectSeq(rows, LAMBDA r : RowPair(r) \notin pairs)

\* A call of store_problems that returns.
StoreStep == pc = "store" /\ pc' = "stored"

\* C21: the table never holds two rows with the same (contest_id,
\* problem_index) pair, nor a row without a contest id or an index.  Every
\* call of store_problems that returns leaves, for each pair of its batch,
\* the one row carrying the values of the last record of the batch with that
\* pair (solved_count from the statistics, 0 when none matches), leaves the
\* rows of all other pairs as they were and adds no other row; and storing
\* the same batch once more would leave the table exactly as it is.
C21_OneRowPerPair ==
    /\ [](/\ \A j, k \in 1..Len(database.rows) :
                j # k => RowPair(database.rows[j]) # RowPair(database.rows[k])
          /\ \A k \in 1..Len(database.rows) :
                database.rows[k].contest_id # <<>> /\ database.rows[k].problem_index # <<>>)
    /\ [][ StoreStep =>
             LET batch == fetched.problems
                 pairs == BatchPairs(batch)
             IN  /\ \A pair \in pairs :
                        \E k \in 1..Len(database'.rows) :
                            Carries(database'.rows[k], LastRecord(batch, pair), fetched.stats)
                 /\ RowsOutside(database'.rows, pairs) = RowsOutside(database.rows, pairs)
                 /\ { RowPair(database'.rows[k]) : k \in 1..Len(database'.rows) }
                       = { RowPair(database.rows[k]) : k \in 1..Len(database.rows) } \cup pairs
                 /\ store_problems(database', batch, fetched.stats) = database'
         ]_vars

\* A call has returned whose batch held two records with the same pair and
\* different names, on a table that already had a row of another pair: the
\* table has one row for the pair of the batch, with the name of the later
\* record, and still has the other row.
C21_Witness ==
    /\ pc = "stored"
    /\ Len(fetched.problems) = 2
    /\ HasPair(fetched.problems[1])
    /\ RecordPair(fetched.problems[1]) = RecordPair(fetched.problems[2])
    /\ fetched.problems[1].name # fetched.problems[2].name
    /\ Len(database.rows) = 2
    /\ RowPair(database.rows[1]) # RecordPair(fetched.problems[2])
    /\ RowPair(database.rows[2]) = RecordPair(fetched.problems[2])
    /\ database.rows[2].name = << "Watermelon" >>
    /\ database.rows[2].solved_count = << 9 >>

====
